---- MODULE Spec2Model ----
(***************************************************************************)
(* Anchored Merkle proofs (src/src/lib.rs, setup.rs, prove.rs).            *)
(*                                                                         *)
(* The curve is scaled down from BN254 to the curve of the same equation,  *)
(* y^2 = x^3 + 3, over F_19: it has prime order 13 and contains the same   *)
(* base point (1, 2).  A point is represented by its discrete logarithm to *)
(* the base point (0 is the point at infinity), which is an isomorphism of *)
(* the group; XTable gives the affine x coordinate of every finite point.  *)
(* As on BN254, P and -P share their x coordinate and no two other points  *)
(* do.  Byte strings are scaled down with the fields: a coordinate takes   *)
(* CoordBytes digits of base ByteBase and a limb LimbBytes of them, and,   *)
(* as 2^128 is below the order of BN254, ByteBase^LimbBytes is below       *)
(* FrModulus.                                                              *)
(*                                                                         *)
(* Poseidon is an external collaborator and is modelled as an ideal hash:  *)
(* a digest is the term <<arity, inputs>>, so distinct inputs give         *)
(* distinct digests.  Where the code does field arithmetic on a digest     *)
(* (the challenges), FrOf gives the digest's residue.                      *)
(***************************************************************************)
EXTENDS Integers, Sequences, FiniteSets

\* ---------------------------------------------------------------- bounds
MaxRange == 1        \* tree_setup is called with range in 0..MaxRange
MaxCandidate == 2    \* points the decoding collaborator may hand back

\* ----------------------------------------------------- program constants
FrModulus == 13      \* order of the group: the modulus of Fr
FqModulus == 19      \* modulus of the coordinate field Fq
ByteBase == 2        \* values of one digit of a byte string
LimbBytes == 3       \* split_at(16): digits of one limb
CoordBytes == 6      \* digits of to_bytes_le of a coordinate
CounterModulus == 4  \* the u64 counter of sample_nums_generator wraps here
LEAVES_POSEIDON_DOMAIN == 1
TestRngSeedOutput == 7   \* first scalar of the generator test_rng() seeds

\* x coordinate of [k]G on y^2 = x^3 + 3 over F_19, G = (1, 2), k = 1..12
XTable == <<1, 14, 11, 7, 3, 2, 2, 3, 7, 11, 14, 1>>

Fr == 0..(FrModulus - 1)
Fq == 0..(FqModulus - 1)

\* ------------------------------------------------ field and group (ark_*)
FrAdd(a, b) == (a + b) % FrModulus
FrMul(a, b) == (a * b) % FrModulus

Identity == 0
Generator == 1                                  \* G1Affine::generator()
PointMul(P, k) == (P * k) % FrModulus           \* P * k
PointAdd(P, Q) == (P + Q) % FrModulus           \* P + Q
PointSub(P, Q) == (P + FrModulus - Q) % FrModulus   \* P - Q
IsZero(P) == P = Identity
\* x(): None for the point at infinity, so x().unwrap() panics there
HasX(P) == ~IsZero(P)
XCoord(P) == XTable[P]

\* ------------------------------------------------------------ byte strings
ToBytesLE(n, len) == [i \in 1..len |-> (n \div (ByteBase ^ (i - 1))) % ByteBase]

RECURSIVE LEValue(_)
LEValue(bytes) ==
  IF bytes = <<>> THEN 0 ELSE Head(bytes) + ByteBase * LEValue(Tail(bytes))

FromLEBytesModOrder(bytes, modulus) == LEValue(bytes) % modulus

split_fq_to_fr_swapped(fq_elem) ==
  LET bytes == ToBytesLE(fq_elem, CoordBytes)
      low_bytes == SubSeq(bytes, 1, LimbBytes)
      high_bytes == SubSeq(bytes, LimbBytes + 1, CoordBytes)
  IN  <<FromLEBytesModOrder(high_bytes, FrModulus),
        FromLEBytesModOrder(low_bytes, FrModulus)>>

split_fq_to_fr(fq_elem) ==
  LET bytes == ToBytesLE(fq_elem, CoordBytes)
      low_bytes == SubSeq(bytes, 1, LimbBytes)
      high_bytes == SubSeq(bytes, LimbBytes + 1, CoordBytes)
  IN  <<FromLEBytesModOrder(low_bytes, FrModulus),
        FromLEBytesModOrder(high_bytes, FrModulus)>>

\* test_split_reconstruct_math: the coordinate rebuilt from the two limbs
Reconstruct(lmbs) ==
  LET low_bytes == ToBytesLE(lmbs[1], CoordBytes)
      high_bytes == ToBytesLE(lmbs[2], CoordBytes)
      reconstructed_bytes ==
        SubSeq(low_bytes, 1, LimbBytes) \o SubSeq(high_bytes, 1, LimbBytes)
  IN  FromLEBytesModOrder(reconstructed_bytes, FqModulus)

\* ------------------------------------------------------------------ hashes
Poseidon(inputs) == <<Len(inputs), inputs>>
NoDigest == <<0, <<>>>>

RECURSIVE Residue(_, _)
Residue(inputs, acc) ==
  IF inputs = <<>> THEN acc
  ELSE Residue(Tail(inputs), (acc * 3 + Head(inputs) + 1) % FrModulus)

\* the field element a digest of scalars is, for arithmetic on it
FrOf(digest) == Residue(digest[2], digest[1])

\* PoseidonMerkleHasher::hash on the 64 bytes of two children
MerkleHash(left, right) == Poseidon(<<left, right>>)

\* the leaf of a point p under an anchor: Hash5 and its 32-byte encoding
LeafHash(anchor_pt, p) ==
  LET anchor_x_limbs == split_fq_to_fr(XCoord(anchor_pt))
      p_x_limbs == split_fq_to_fr(XCoord(p))
  IN  Poseidon(<<LEAVES_POSEIDON_DOMAIN, anchor_x_limbs[1], anchor_x_limbs[2],
                 p_x_limbs[1], p_x_limbs[2]>>)

\* ------------------------------------------------------ rs_merkle (tree)
NextLayer(layer) ==
  [i \in 1..((Len(layer) + 1) \div 2) |->
     IF 2 * i <= Len(layer) THEN MerkleHash(layer[2 * i - 1], layer[2 * i])
     ELSE layer[2 * i - 1]]

RECURSIVE MerkleRoot(_)
MerkleRoot(layer) ==
  IF Len(layer) = 0 THEN NoDigest
  ELSE IF Len(layer) = 1 THEN layer[1]
  ELSE MerkleRoot(NextLayer(layer))

Sibling(idx) == IF idx % 2 = 0 THEN idx + 1 ELSE idx - 1

\* tree.proof(&[idx]): the sibling hashes from the leaves up, idx from 0
RECURSIVE MerklePath(_, _)
MerklePath(layer, idx) ==
  IF Len(layer) <= 1 THEN <<>>
  ELSE (IF Sibling(idx) < Len(layer) THEN <<layer[Sibling(idx) + 1]>> ELSE <<>>)
       \o MerklePath(NextLayer(layer), idx \div 2)

RECURSIVE MerkleWalk(_, _, _, _)
MerkleWalk(hash, idx, n, path) ==
  IF n <= 1 THEN (IF path = <<>> THEN hash ELSE NoDigest)
  ELSE IF Sibling(idx) < n
       THEN IF path = <<>> THEN NoDigest
            ELSE MerkleWalk(IF idx % 2 = 0 THEN MerkleHash(hash, Head(path))
                                           ELSE MerkleHash(Head(path), hash),
                            idx \div 2, (n + 1) \div 2, Tail(path))
       ELSE MerkleWalk(hash, idx \div 2, (n + 1) \div 2, path)

\* merkle_proof.verify(root, &[idx], &[leaf], total)
MerkleVerify(path, root, idx, leaf, total) ==
  /\ root # NoDigest
  /\ idx < total
  /\ MerkleWalk(leaf, idx, total, path) = root

\* ------------------------------------------------------------------- rng
\* test_rng() seeds a new generator: the handle starts at position 0
TestRng == 0
\* scalar the seeded generator gives at a position of its stream (the seed
\* is fixed, so the stream is; no handle is ever read past position 0)
RngStream(pos) == (TestRngSeedOutput + 5 * pos) % FrModulus
\* Fr::rand(&mut rng): the scalar read and the handle advanced
FrRand(rng) == [value |-> RngStream(rng), pos |-> rng, next |-> rng + 1]

\* ----------------------------------------------------------------- setup
anchor_setup(s, generator) == PointMul(generator, s)

tree_loop_exclusive(x, count) == x < count
\* while x <= count
tree_loop(x, count) == x <= count

RECURSIVE TreeLeaves(_, _, _, _, _)
TreeLeaves(x, count, anchor_pt, a, leaves) ==
  IF ~tree_loop(x, count) THEN [ok |-> TRUE, leaves |-> leaves]
  ELSE LET x_fr == x % FrModulus
           scalar == FrMul(x_fr, a)
           p == PointMul(Generator, scalar)
       IN  IF ~HasX(p) THEN [ok |-> FALSE, leaves |-> leaves]
           ELSE TreeLeaves(x + 1, count, anchor_pt, a,
                           Append(leaves, LeafHash(anchor_pt, p)))

\* tree_setup(range, anchor, a): the leaves handed to from_leaves, or a panic
tree_setup(rng, anchor_pt, a) ==
  IF ~HasX(anchor_pt) THEN [ok |-> FALSE, leaves |-> <<>>]
  ELSE TreeLeaves(1, 2 ^ rng, anchor_pt, a, <<>>)

\* ----------------------------------------------------------------- prove
NoDleq == [r_commitment_1 |-> 0, r_commitment_2 |-> 0, response |-> 0]
NoSchnorr == [commitment |-> 0, response |-> 0]
NoProof ==
  [commitment |-> 0, modified_commitment |-> 0, p_point |-> 0,
   leaf_hash |-> NoDigest, merkle_proof |-> <<>>,
   dleq_proof |-> NoDleq, schnorr_proof |-> NoSchnorr]

DleqChallenge(public1, public2, r1, r2) ==
  LET u_limbs == split_fq_to_fr(XCoord(public1))
      c_modified_limbs == split_fq_to_fr(XCoord(public2))
      r1_limbs == split_fq_to_fr(XCoord(r1))
      r2_limbs == split_fq_to_fr(XCoord(r2))
  IN  FrOf(Poseidon(<<u_limbs[1], u_limbs[2],
                      c_modified_limbs[1], c_modified_limbs[2],
                      r1_limbs[1], r1_limbs[2], r2_limbs[1], r2_limbs[2]>>))

DleqResponseNoSecret(r, challenge, s) == FrAdd(r, challenge)
\* let response = r + (challenge * secret)
DleqResponse(r, challenge, s) == FrAdd(r, FrMul(challenge, s))

generate_dleq_proof(s, generator1, generator2, public1, public2) ==
  LET r == FrRand(TestRng).value
      r1_affine == PointMul(generator1, r)
      r2_affine == PointMul(generator2, r)
  IN  IF ~(HasX(public1) /\ HasX(public2) /\ HasX(r1_affine) /\ HasX(r2_affine))
      THEN [ok |-> FALSE, nonce |-> r, proof |-> NoDleq]
      ELSE [ok |-> TRUE, nonce |-> r,
            proof |-> [r_commitment_1 |-> r1_affine,
                       r_commitment_2 |-> r2_affine,
                       response |->
                         DleqResponse(r, DleqChallenge(public1, public2,
                                                       r1_affine, r2_affine), s)]]

SchnorrChallenge(public, r_point) ==
  LET pk_limbs == split_fq_to_fr(XCoord(public))
      r_limbs == split_fq_to_fr(XCoord(r_point))
  IN  FrOf(Poseidon(<<pk_limbs[1], pk_limbs[2], r_limbs[1], r_limbs[2]>>))

generate_schnorr_proof(s, generator, public) ==
  LET r_scalar == FrRand(TestRng).value
      r_affine == PointMul(generator, r_scalar)
  IN  IF ~(HasX(public) /\ HasX(r_affine))
      THEN [ok |-> FALSE, nonce |-> r_scalar, proof |-> NoSchnorr]
      ELSE [ok |-> TRUE, nonce |-> r_scalar,
            proof |-> [commitment |-> r_affine,
                       response |->
                         FrAdd(r_scalar,
                               FrMul(SchnorrChallenge(public, r_affine), s))]]

CompositeSecretSum(s, b) == FrAdd(s, b)
\* let composite_secret = input.secret * input.blinding
CompositeSecret(s, b) == FrMul(s, b)

FindLeafFrom(leaves, bytes_hash, first) ==
  LET hits == {i \in first..(Len(leaves) - 1) : leaves[i + 1] = bytes_hash}
  IN  IF hits = {} THEN -1
      ELSE CHOOSE i \in hits : \A j \in hits : i <= j

FindLeafSkipFirst(leaves, bytes_hash) == FindLeafFrom(leaves, bytes_hash, 1)
\* for leave_index in 0..leaves_len(): the first index holding the hash, or -1
FindLeaf(leaves, bytes_hash) == FindLeafFrom(leaves, bytes_hash, 0)

\* generate_anchored_proof: the bundle, or the panic that ends the call
generate_anchored_proof(s, w, b, gen_g, gen_h, gen_b, anchor_pt, leaves) ==
  LET commitment == PointAdd(PointMul(gen_g, w), PointMul(gen_h, b))
      modified_commitment == PointMul(commitment, s)
      scalar == FrMul(s, w)
      p == PointMul(gen_g, scalar)
      none == [outcome |-> "unwrap_none_leaf", proof |-> NoProof,
               dleq_nonce |-> <<>>, schnorr_nonce |-> <<>>]
  IN  IF ~(HasX(anchor_pt) /\ HasX(p)) THEN none
      ELSE
      LET bytes_hash == LeafHash(anchor_pt, p)
          leave_index == FindLeaf(leaves, bytes_hash)
      IN  IF leave_index < 0
          THEN [none EXCEPT !.outcome = "leaf_not_found"]
          ELSE
          LET merkle_proof == MerklePath(leaves, leave_index)
              public_blinding == PointSub(modified_commitment, p)
              dleq == generate_dleq_proof(s, gen_b, commitment,
                                          anchor_pt, modified_commitment)
          IN  IF ~dleq.ok
              THEN [none EXCEPT !.outcome = "unwrap_none_dleq",
                                !.dleq_nonce = <<dleq.nonce>>]
              ELSE
              LET composite_secret == CompositeSecret(s, b)
                  schnorr == generate_schnorr_proof(composite_secret,
                                                    gen_h, public_blinding)
              IN  IF ~schnorr.ok
                  THEN [none EXCEPT !.outcome = "unwrap_none_schnorr",
                                    !.dleq_nonce = <<dleq.nonce>>,
                                    !.schnorr_nonce = <<schnorr.nonce>>]
                  ELSE [outcome |-> "bundle",
                        proof |-> [commitment |-> commitment,
                                   modified_commitment |-> modified_commitment,
                                   p_point |-> p,
                                   leaf_hash |-> bytes_hash,
                                   merkle_proof |-> merkle_proof,
                                   dleq_proof |-> dleq.proof,
                                   schnorr_proof |-> schnorr.proof],
                        dleq_nonce |-> <<dleq.nonce>>,
                        schnorr_nonce |-> <<schnorr.nonce>>]

\* ------------------------------------------------------------------ state
VARIABLES
  pc,            \* where the run stands
  fault,         \* the panic that ended the run, "none" while it runs
  counter,       \* sample_nums_generator's counter
  genH, genB,    \* the sampled generators (Identity until sampled)
  secret, blinding,
  consumed,      \* <<call site, stream position>> of every Fr::rand so far
  anchor,
  range,
  tree,          \* the leaves of the tree
  witness,       \* the witness of the last generate_anchored_proof
  outcome,       \* how that call ended
  proof,         \* the bundle it returned
  nonces,        \* the nonces it drew: <<DLEQ's, Schnorr's>>, each <<>> or <<n>>
  dleqUsed, schnorrUsed,      \* nonces earlier calls drew
  dleqReused, schnorrReused,  \* a call drew a nonce an earlier call drew
  splitIn, limbs, reconstructed   \* test_split_reconstruct_math

vars == <<pc, fault, counter, genH, genB, secret, blinding, consumed, anchor,
          range, tree, witness, outcome, proof, nonces, dleqUsed, schnorrUsed,
          dleqReused, schnorrReused, splitIn, limbs, reconstructed>>

setupVars == <<genH, genB, secret, blinding, anchor, range, tree>>
proofVars == <<witness, outcome, proof, nonces, dleqUsed, schnorrUsed,
               dleqReused, schnorrReused>>
splitVars == <<splitIn, limbs, reconstructed>>

CandidatePoints == 2..(MaxCandidate + 1)

Init ==
  /\ pc = "start"
  /\ fault = "none"
  /\ counter = 0
  /\ genH = Identity /\ genB = Identity
  /\ secret = 0 /\ blinding = 0
  /\ consumed = {}
  /\ anchor = Identity
  /\ range = 0
  /\ tree = <<>>
  /\ witness = 0
  /\ outcome = "none"
  /\ proof = NoProof
  /\ nonces = <<<<>>, <<>>>>
  /\ dleqUsed = {} /\ schnorrUsed = {}
  /\ dleqReused = FALSE /\ schnorrReused = FALSE
  /\ splitIn = 0 /\ limbs = <<0, 0>> /\ reconstructed = 0

\* test_split_reconstruct_math on a coordinate
SplitReconstruct(x) ==
  /\ pc = "start"
  /\ splitIn' = x
  /\ limbs' = split_fq_to_fr(x)
  /\ reconstructed' = Reconstruct(split_fq_to_fr(x))
  /\ pc' = "split_done"
  /\ UNCHANGED <<fault, counter, consumed>>
  /\ UNCHANGED setupVars /\ UNCHANGED proofVars

\* generator_setup: G is the base point, H is sampled next
GeneratorSetup ==
  /\ pc = "start"
  /\ pc' = "sample_h"
  /\ counter' = 0
  /\ UNCHANGED <<fault, consumed>>
  /\ UNCHANGED setupVars /\ UNCHANGED proofVars /\ UNCHANGED splitVars

Sampling == pc \in {"sample_h", "sample_b"}

\* sample_nums_generator: the candidate decodes to a point that is not zero
SampleAccept(point) ==
  /\ Sampling
  /\ ~IsZero(point)
  /\ IF pc = "sample_h"
     THEN genH' = point /\ genB' = genB /\ pc' = "sample_b"
     ELSE genB' = point /\ genH' = genH /\ pc' = "secret"
  /\ counter' = 0
  /\ UNCHANGED <<fault, consumed, secret, blinding, anchor, range, tree>>
  /\ UNCHANGED proofVars /\ UNCHANGED splitVars

\* sample_nums_generator: the candidate is no point, or is zero: counter += 1
SampleReject ==
  /\ Sampling
  /\ \/ /\ counter + 1 < CounterModulus
        /\ counter' = counter + 1
        /\ UNCHANGED <<pc, fault>>
     \/ /\ counter + 1 = CounterModulus      \* overflow, unchecked build
        /\ counter' = 0
        /\ UNCHANGED <<pc, fault>>
     \/ /\ counter + 1 = CounterModulus      \* overflow, checked build
        /\ counter' = counter
        /\ pc' = "panicked"
        /\ fault' = "counter_overflow"
  /\ UNCHANGED consumed
  /\ UNCHANGED setupVars /\ UNCHANGED proofVars /\ UNCHANGED splitVars

SetScalar(v) ==
  IF pc = "secret"
  THEN secret' = v /\ blinding' = blinding /\ pc' = "blinding"
  ELSE blinding' = v /\ secret' = secret /\ pc' = "anchor"

\* secret_setup(): Fr::rand on a generator test_rng() has just seeded
SecretSetup ==
  /\ pc \in {"secret", "blinding"}
  /\ LET d == FrRand(TestRng)
     IN  /\ SetScalar(d.value)
         /\ consumed' = consumed \cup {<<pc, d.pos>>}
  /\ UNCHANGED <<fault, counter, genH, genB, anchor, range, tree>>
  /\ UNCHANGED proofVars /\ UNCHANGED splitVars

\* the caller supplies the scalar itself
ProvideScalar(v) ==
  /\ pc \in {"secret", "blinding"}
  /\ SetScalar(v)
  /\ UNCHANGED <<fault, counter, consumed, genH, genB, anchor, range, tree>>
  /\ UNCHANGED proofVars /\ UNCHANGED splitVars

AnchorSetup ==
  /\ pc = "anchor"
  /\ anchor' = anchor_setup(secret, genB)
  /\ pc' = "tree"
  /\ UNCHANGED <<fault, counter, consumed, genH, genB, secret, blinding,
                 range, tree>>
  /\ UNCHANGED proofVars /\ UNCHANGED splitVars

TreeSetup(r) ==
  /\ pc = "tree"
  /\ \E t \in {tree_setup(r, anchor, secret)} :
         /\ range' = r
         /\ tree' = t.leaves
         /\ pc' = IF t.ok THEN "prove" ELSE "panicked"
         /\ fault' = IF t.ok THEN fault ELSE "unwrap_none"
  /\ UNCHANGED <<counter, consumed, genH, genB, secret, blinding, anchor>>
  /\ UNCHANGED proofVars /\ UNCHANGED splitVars

\* one call of generate_anchored_proof on the session's inputs and a witness;
\* a call that panics ends that call alone, and another call may follow
GenerateProof(w) ==
  /\ pc = "prove"
  /\ \E res \in {generate_anchored_proof(secret, w, blinding, Generator, genH,
                                         genB, anchor, tree)} :
     LET dn == {res.dleq_nonce[i] : i \in DOMAIN res.dleq_nonce}
         sn == {res.schnorr_nonce[i] : i \in DOMAIN res.schnorr_nonce}
     IN  /\ witness' = w
         /\ outcome' = res.outcome
         /\ proof' = res.proof
         /\ nonces' = <<res.dleq_nonce, res.schnorr_nonce>>
         /\ dleqReused' = (dleqReused \/ (dn \cap dleqUsed # {}))
         /\ schnorrReused' = (schnorrReused \/ (sn \cap schnorrUsed # {}))
         /\ dleqUsed' = dleqUsed \cup dn
         /\ schnorrUsed' = schnorrUsed \cup sn
         /\ consumed' = consumed
              \cup (IF dn = {} THEN {} ELSE {<<"dleq", FrRand(TestRng).pos>>})
              \cup (IF sn = {} THEN {} ELSE {<<"schnorr", FrRand(TestRng).pos>>})
  /\ UNCHANGED <<pc, fault, counter>>
  /\ UNCHANGED setupVars /\ UNCHANGED splitVars

Next ==
  \/ \E x \in Fq : SplitReconstruct(x)
  \/ GeneratorSetup
  \/ \E point \in CandidatePoints : SampleAccept(point)
  \/ SampleReject
  \/ SecretSetup
  \/ \E v \in Fr : ProvideScalar(v)
  \/ AnchorSetup
  \/ \E r \in 0..MaxRange : TreeSetup(r)
  \/ \E w \in Fr : GenerateProof(w)

Spec == Init /\ [][Next]_vars

\* the program keeps running: a step that can be taken is taken
FairSpec == Spec /\ WF_vars(Next)

\* ----------------------------------------------------------------- claims
Called == pc = "prove" /\ outcome # "none"
Returned == Called /\ outcome = "bundle"
\* the witness is one of the integers tree_setup enrolled
Enrolled(w) == 1 <= w /\ w <= 2 ^ range

\* C1: over any sequence of generate_anchored_proof calls, no call draws a
\* DLEQ nonce that an earlier call drew, and none a Schnorr nonce that an
\* earlier call drew.
C1_NoncesFresh == ~dleqReused /\ ~schnorrReused

\* C2: for every range and every enrolled witness w, 1 <= w <= 2^range, the
\* call finds the leaf (it never ends "leaf not found", nor before the
\* search), and the bundle it returns has the tree's leaf at index w - 1 as
\* leaf_hash and a merkle_proof that verifies against the root for index
\* w - 1, that leaf and 2^range leaves.
C2_MerkleInclusion ==
  (Called /\ Enrolled(witness)) =>
    /\ outcome \in {"bundle", "unwrap_none_dleq", "unwrap_none_schnorr"}
    /\ Returned =>
         /\ proof.leaf_hash = tree[witness]
         /\ MerkleVerify(proof.merkle_proof, MerkleRoot(tree), witness - 1,
                         proof.leaf_hash, 2 ^ range)

\* a bundle was returned for the last enrolled witness, w = 2^range, of a
\* tree of more than one leaf
C2_Witness == Returned /\ range >= 1 /\ witness = 2 ^ range

\* C3: for a witness that is none of the integers 1..2^range, the call
\* returns no bundle.
C3_NotEnrolledFails == (Called /\ ~Enrolled(witness)) => outcome # "bundle"

\* C4: a returned bundle's DLEQ response is z = rho + e*s for the nonce rho
\* the call drew and the challenge e recomputed from (U, C', R1, R2), and
\* both verifier equations hold: B^z = R1 * U^e and C^z = R2 * (C')^e.
C4_DleqComplete ==
  Returned =>
    LET d == proof.dleq_proof
        e == DleqChallenge(anchor, proof.modified_commitment,
                           d.r_commitment_1, d.r_commitment_2)
        z == d.response
    IN  /\ nonces[1] # <<>>
        /\ z = (nonces[1][1] + e * secret) % FrModulus
        /\ PointMul(genB, z) = PointAdd(d.r_commitment_1, PointMul(anchor, e))
        /\ PointMul(proof.commitment, z)
             = PointAdd(d.r_commitment_2, PointMul(proof.modified_commitment, e))

\* a bundle whose DLEQ response differs from the nonce: e*s is not zero
C4_Witness ==
  /\ Returned
  /\ nonces[1] # <<>>
  /\ proof.dleq_proof.response # nonces[1][1]
  /\ secret # 1

\* C5: for a returned bundle, public_blinding = C' - P is H^(s*r), and with
\* e' recomputed from (public_blinding, R): H^z' = R * public_blinding^e'.
C5_SchnorrComplete ==
  Returned =>
    LET sp == proof.schnorr_proof
        public_blinding == PointSub(proof.modified_commitment, proof.p_point)
        e == SchnorrChallenge(public_blinding, sp.commitment)
    IN  /\ public_blinding = PointMul(genH, (secret * blinding) % FrModulus)
        /\ PointMul(genH, sp.response)
             = PointAdd(sp.commitment, PointMul(public_blinding, e))

\* a bundle whose Schnorr response differs from the nonce, for a secret and
\* a blinding whose product is not their sum
C5_Witness ==
  /\ Returned
  /\ nonces[2] # <<>>
  /\ proof.schnorr_proof.response # nonces[2][1]
  /\ (secret * blinding) % FrModulus # (secret + blinding) % FrModulus

\* C6: the source secret_setup draws from advances: a draw of secret_setup
\* and any other draw (of secret_setup again, or of a nonce) never read the
\* same position of the same seeded stream, which would force them equal.
C6_SourceAdvances ==
  \A a \in consumed : \A b \in consumed :
    (a[1] \in {"secret", "blinding"} /\ a # b) => a[2] # b[2]

\* C7: the tree built for a range has exactly 2^range leaves, the leaf at
\* index i is Hash5(1, split(U.x), split((G^(secret*(i+1))).x)), and the
\* tree has a root.
C7_TreeLeaves ==
  pc = "prove" =>
    /\ Len(tree) = 2 ^ range
    /\ \A i \in 0..(2 ^ range - 1) :
         i + 1 \in DOMAIN tree /\
         tree[i + 1] =
           Poseidon(<<1>> \o split_fq_to_fr(XCoord(anchor))
                    \o split_fq_to_fr(
                         XCoord(PointMul(Generator, (secret * (i + 1)) % FrModulus))))
    /\ MerkleRoot(tree) # NoDigest

\* a tree of more than one leaf was built
C7_Witness == pc = "prove" /\ range >= 1 /\ Len(tree) >= 2

\* C8: the limbs of a coordinate x are the low and the high half of x: the
\* LimbBytes-digit encodings of the two, concatenated, are the encoding of
\* x, neither limb is reduced, and the coordinate rebuilt from them is x.
C8_SplitLossless ==
  pc = "split_done" =>
    /\ ToBytesLE(limbs[1], LimbBytes) \o ToBytesLE(limbs[2], LimbBytes)
         = ToBytesLE(splitIn, CoordBytes)
    /\ limbs[1] + (ByteBase ^ LimbBytes) * limbs[2] = splitIn
    /\ reconstructed = splitIn

\* a coordinate whose two limbs are both not zero was split
C8_Witness == pc = "split_done" /\ limbs[1] # 0 /\ limbs[2] # 0

\* C9: sampling a generator always ends: with the point returned, or with a
\* fatal error (SetupError once an iteration cap is exceeded); it never
\* loops forever.
C9_SamplingTerminates ==
  /\ (pc = "sample_h") ~> (genH # Identity \/ fault # "none")
  /\ (pc = "sample_b") ~> (genB # Identity \/ fault # "none")

\* C10: for an enrolled witness, whatever the secret and the blinding, the
\* call returns a bundle.
C10_TotalForEnrolled == (Called /\ Enrolled(witness)) => outcome = "bundle"

====
